---------------------------- MODULE Spec2Model ----------------------------
(***************************************************************************)
(* Model of supervision/utils/image.py: the tile mosaic (create_tiles and  *)
(* its helpers), letterbox_image and resize_image_keeping_aspect_ratio.    *)
(*                                                                         *)
(* A raster is modelled by its size and by the rectangles of content       *)
(* placed in it; pixel values are not modelled.  The functions are pure,   *)
(* so the state of the model is one call: the function called, its         *)
(* arguments, and what it returned or raised.                              *)
(***************************************************************************)
EXTENDS Integers, Sequences, FiniteSets

(***************************************************************************)
(* Bounds of the model.                                                    *)
(***************************************************************************)
\* Largest width or height of a raster or of a target size.
MaxSide == 9

\* Largest number of images passed to create_tiles.
MaxImages == 5

\* Largest number of rows or columns asked for in grid_size.
MaxGridSide == 3

\* Largest tile_margin.
MaxMargin == 1

\* Largest number of images passed to create_tiles together with titles.
MaxTitled == 3

\* Largest number of images passed to _negotiate_grid_size alone.
MaxCount == 30

(***************************************************************************)
(* Optional values: Python's None is the empty tuple, a value v is <<v>>.  *)
(***************************************************************************)
None == <<>>

Some(v) == <<v>>

Val(o) == o[1]

\* No exception was raised.
NoError == "none"

(***************************************************************************)
(* IEEE-754 binary64 arithmetic, as Python's float uses it, for positive   *)
(* normal numbers.  A float is [hi, lo, e] and stands for                  *)
(* (hi * 2^26 + lo) * 2^e with a 53-bit significand: 2^26 <= hi < 2^27 and *)
(* 0 <= lo < 2^26.  The significand is kept in two limbs so that every     *)
(* intermediate value fits a 32-bit integer.                               *)
(***************************************************************************)
Limb == 2^26

\* A two-limb natural number [hi, lo] = hi * 2^26 + lo.
Big(hi, lo) == [hi |-> hi, lo |-> lo]

BigGeq(p, q) == p.hi > q.hi \/ (p.hi = q.hi /\ p.lo >= q.lo)

BigEq(p, q) == p.hi = q.hi /\ p.lo = q.lo

\* p - q, for p >= q.
BigSub(p, q) ==
    IF p.lo >= q.lo THEN Big(p.hi - q.hi, p.lo - q.lo)
    ELSE Big(p.hi - q.hi - 1, p.lo + Limb - q.lo)

\* 2 * p + bit.
BigShiftIn(p, bit) ==
    Big(2 * p.hi + ((2 * p.lo) \div Limb), ((2 * p.lo) % Limb) + bit)

\* p + 1.
BigInc(p) ==
    IF p.lo + 1 = Limb THEN Big(p.hi + 1, 0) ELSE Big(p.hi, p.lo + 1)

\* floor(p / 2^s) for 0 <= s <= 26, and the s bits dropped.
BigShiftRight(p, s) ==
    Big(p.hi \div (2^s), (p.lo \div (2^s)) + (p.hi % (2^s)) * (2^(26 - s)))

\* A significand that rounding carried up to 2^53 is renormalised.
FloatNormal(m, e) ==
    IF m.hi >= 2 * Limb THEN [hi |-> Limb, lo |-> 0, e |-> e + 1]
    ELSE [hi |-> m.hi, lo |-> m.lo, e |-> e]

\* Conversion of a positive integer n < 2^26 to float: exact.
RECURSIVE FloatFromIntShift(_, _)
FloatFromIntShift(m, e) ==
    IF m.hi >= Limb THEN [hi |-> m.hi, lo |-> m.lo, e |-> e]
    ELSE FloatFromIntShift(BigShiftIn(m, 0), e - 1)

FloatFromInt(n) == FloatFromIntShift(Big(0, n), 0)

\* x >= y for positive normal floats.
FloatGeq(x, y) ==
    \/ x.e > y.e
    \/ x.e = y.e /\ BigGeq(Big(x.hi, x.lo), Big(y.hi, y.lo))

\* Long division of significands: q accumulates quotient bits until it has
\* 53 of them; r < d is the running remainder, k the number of doublings.
RECURSIVE FloatDivBits(_, _, _, _)
FloatDivBits(q, r, d, k) ==
    IF q.hi >= Limb THEN [q |-> q, r |-> r, k |-> k]
    ELSE LET r2  == BigShiftIn(r, 0)
             bit == IF BigGeq(r2, d) THEN 1 ELSE 0
         IN  FloatDivBits(BigShiftIn(q, bit),
                          IF bit = 1 THEN BigSub(r2, d) ELSE r2,
                          d, k + 1)

\* The quotient bits res.q of a division by the significand d with the
\* remainder res.r, rounded to nearest, ties to even.
FloatDivRounded(res, twice, d) ==
    IF (IF BigEq(twice, d) THEN res.q.lo % 2 = 1 ELSE BigGeq(twice, d))
    THEN BigInc(res.q)
    ELSE res.q

FloatDivResult(res, d, e) ==
    FloatNormal(FloatDivRounded(res, BigShiftIn(res.r, 0), d), e - res.k)

\* The division of the significand mx by my, both of 53 bits: the first
\* quotient bit, then the long division.
FloatDivSignificands(mx, my) ==
    IF BigGeq(mx, my) THEN FloatDivBits(Big(0, 1), BigSub(mx, my), my, 0)
    ELSE FloatDivBits(Big(0, 0), mx, my, 0)

\* x / y, rounded to nearest, ties to even.
FloatDiv(x, y) ==
    FloatDivResult(FloatDivSignificands(Big(x.hi, x.lo), Big(y.hi, y.lo)),
                   Big(y.hi, y.lo), x.e - y.e)

\* Number of bits by which a product significand exceeds 53 bits.
RECURSIVE BigExcessBits(_)
BigExcessBits(p) ==
    IF p.hi < 2 * Limb THEN 0
    ELSE 1 + BigExcessBits(Big(p.hi \div 2, 0))

\* The product significand p, s bits too long, rounded to 53 bits: to
\* nearest, ties to even.
FloatMulRounded(p, s, q) ==
    IF s > 0 /\ \/ p.lo % (2^s) > 2^(s - 1)
                \/ (p.lo % (2^s) = 2^(s - 1) /\ q.lo % 2 = 1)
    THEN BigInc(q)
    ELSE q

FloatMulResult(p, s, e) ==
    FloatNormal(FloatMulRounded(p, s, BigShiftRight(p, s)), e + s)

FloatMulProduct(p, e) == FloatMulResult(p, BigExcessBits(p), e)

\* n * x for an integer 1 <= n <= 15, rounded to nearest, ties to even.
\* The integer operand converts to float exactly, so the IEEE product is
\* the exact product n * significand rounded to 53 bits.
FloatMulInt(n, x) ==
    FloatMulProduct(Big(n * x.hi + ((n * x.lo) \div Limb), (n * x.lo) % Limb), x.e)

\* int(x): truncation towards zero, for 0 < x < 2^26.
FloatToInt(x) ==
    IF 0 - x.e >= 53 THEN 0
    ELSE IF 0 - x.e >= 26 THEN x.hi \div (2^(0 - x.e - 26))
    ELSE x.hi * (2^(26 + x.e)) + (x.lo \div (2^(0 - x.e)))

\* The s fraction bits of the significand m, as a two-limb number.
BigLowBits(m, s) ==
    IF s >= 53 THEN m
    ELSE IF s >= 26 THEN Big(m.hi % (2^(s - 26)), m.lo)
    ELSE Big(0, m.lo % (2^s))

\* One half in the unit of s fraction bits, for 1 <= s <= 53.
BigHalf(s) == IF s > 26 THEN Big(2^(s - 27), 0) ELSE Big(0, 2^(s - 1))

FloatRoundedUp(whole, frac, half) ==
    IF BigEq(frac, half) THEN (IF whole % 2 = 1 THEN whole + 1 ELSE whole)
    ELSE IF BigGeq(frac, half) THEN whole + 1
    ELSE whole

\* round(x): to the nearest integer, ties to even, for 0 < x < 2^26.
FloatRound(x) ==
    IF x.e >= 0 THEN FloatToInt(x)
    ELSE IF x.e < 0 - 53 THEN 0
    ELSE FloatRoundedUp(FloatToInt(x), BigLowBits(Big(x.hi, x.lo), 0 - x.e),
                        BigHalf(0 - x.e))

\* math.ceil(x), for 0 < x < 2^26.
FloatCeil(x) ==
    IF x.e >= 0 \/ BigEq(BigLowBits(Big(x.hi, x.lo), 0 - x.e), Big(0, 0))
    THEN FloatToInt(x)
    ELSE FloatToInt(x) + 1

(***************************************************************************)
(* Python's true division of two positive integers and the two float       *)
(* expressions of resize_image_keeping_aspect_ratio, tabulated over the    *)
(* sides the model uses.                                                   *)
(***************************************************************************)
Sides == 1..MaxSide

\* a / b for integers a and b: image.shape[1] / image.shape[0] and
\* desired_size[0] / desired_size[1].
TrueDiv == [a \in Sides, b \in Sides |-> FloatDiv(FloatFromInt(a), FloatFromInt(b))]

\* np.average of n integers whose sum is s: the float s / n.
Mean ==
    [s \in 1..(MaxImages * MaxSide), n \in 1..MaxImages |->
        FloatDiv(FloatFromInt(s), FloatFromInt(n))]

\* int(n / (a / b)): new_height = int(desired_size[0] / img_ratio).
IntOfDivByRatio ==
    [n \in Sides, a \in Sides, b \in Sides |->
        FloatToInt(FloatDiv(FloatFromInt(n), TrueDiv[a, b]))]

\* int(n * (a / b)): new_width = int(desired_size[1] * img_ratio).
IntOfMulByRatio ==
    [n \in Sides, a \in Sides, b \in Sides |->
        FloatToInt(FloatMulInt(n, TrueDiv[a, b]))]

(***************************************************************************)
(* Colors.  A color argument is either an sv.Color or a BGR tuple:         *)
(* [type |-> "Color", c |-> <<r, g, b>>] or [type |-> "tuple", c |-> bgr]. *)
(***************************************************************************)
Color(r, g, b) == [type |-> "Color", c |-> <<r, g, b>>]

BgrTuple(b, g, r) == [type |-> "tuple", c |-> <<b, g, r>>]

\* Color.as_bgr().
as_bgr(color) == <<color.c[3], color.c[2], color.c[1]>>

_color_to_bgr(color) == IF color.type = "Color" THEN as_bgr(color) ELSE color.c

(***************************************************************************)
(* Rasters.  A numpy image of shape (h, w, 3) is [w, h, parts]: parts are  *)
(* the rectangles [x, y, w, h, what] of content placed in it, (0, 0) being *)
(* the top-left corner.  The content of a rectangle is a picture (the      *)
(* input image of that index, scaled to the rectangle), a solid color, or  *)
(* a title drawn on the tile that occupies the rectangle.                  *)
(***************************************************************************)
Content(kind, index, color, text, anchor) ==
    [kind |-> kind, index |-> index, color |-> color, text |-> text, anchor |-> anchor]

ImageContent(index) == Content("image", index, None, "", None)

ColorContent(bgr) == Content("color", 0, Some(bgr), "", None)

TitleContent(index, text, anchor) == Content("title", index, None, text, Some(anchor))

Part(x, y, w, h, what) == [x |-> x, y |-> y, w |-> w, h |-> h, what |-> what]

Array(w, h, parts) == [w |-> w, h |-> h, parts |-> parts]

\* An input image: one picture covering the whole raster.
Picture(w, h, index) == Array(w, h, {Part(0, 0, w, h, ImageContent(index))})

\* np.ones((h, w, 3)) * color: empty when a side is 0.
Solid(w, h, bgr) ==
    Array(w, h, IF w = 0 \/ h = 0 THEN {} ELSE {Part(0, 0, w, h, ColorContent(bgr))})

Shifted(parts, dx, dy) ==
    {Part(p.x + dx, p.y + dy, p.w, p.h, p.what) : p \in parts}

\* The outcome of a call: an exception raised or a value returned, with the
\* local variables at that point.
Raise(error, locals) == [raised |-> error, returned |-> None, locals |-> locals]

Return(value, locals) == [raised |-> NoError, returned |-> Some(value), locals |-> locals]

\* cv2.resize(image, dsize): OpenCV rejects a dsize with a dimension of zero
\* (the scale factors fx, fy are left at 0); the content is scaled to dsize.
cv2_resize(image, dsize) ==
    IF dsize[1] <= 0 \/ dsize[2] <= 0 THEN Raise("cv2.error", None)
    ELSE Return(Array(dsize[1], dsize[2],
                      {Part(0, 0, dsize[1], dsize[2], p.what) : p \in image.parts}),
                None)

\* (new_width, new_height) of resize_image_keeping_aspect_ratio.
new_size(image, desired_size) ==
    IF FloatGeq(TrueDiv[image.w, image.h], TrueDiv[desired_size[1], desired_size[2]])
    THEN <<desired_size[1], IntOfDivByRatio[desired_size[1], image.w, image.h]>>
    ELSE <<IntOfMulByRatio[desired_size[2], image.w, image.h], desired_size[2]>>

\* An outcome with the local variables given.
WithLocals(res, locals) ==
    [raised |-> res.raised, returned |-> res.returned, locals |-> locals]

\* return cv2.resize(image, (new_width, new_height)).
resize_to(image, size) ==
    WithLocals(cv2_resize(image, size), [new_size |-> Some(size)])

resize_image_keeping_aspect_ratio(image, desired_size) ==
    IF <<image.h, image.w>> = <<desired_size[2], desired_size[1]>>
    THEN Return(image, [new_size |-> None])
    ELSE resize_to(image, new_size(image, desired_size))

\* cv2.copyMakeBorder(src, top, bottom, left, right, BORDER_CONSTANT, value):
\* the source is placed at (left, top) of a raster grown by the four borders,
\* which are filled with value.
cv2_copyMakeBorder(src, top, bottom, left, right, value) ==
    IF top < 0 \/ bottom < 0 \/ left < 0 \/ right < 0
    THEN Raise("cv2.error", None)
    ELSE Return(Array(src.w + left + right, src.h + top + bottom,
                      Shifted(src.parts, left, top)
                      \cup Solid(src.w + left + right, top, value).parts
                      \cup Shifted(Solid(src.w + left + right, bottom, value).parts,
                                   0, top + src.h)
                      \cup Shifted(Solid(left, src.h, value).parts, 0, top)
                      \cup Shifted(Solid(right, src.h, value).parts, left + src.w, top)),
                None)

\* The padding before (top, left) and after (bottom, right) a resized side.
padding_before(desired, new) == (desired - new) \div 2

padding_after(desired, new) == desired - new - padding_before(desired, new)

\* letterbox_image from the resized image on: the four paddings and the
\* border.
letterbox_resized(resized_img, desired_size, bgr) ==
    WithLocals(
        cv2_copyMakeBorder(resized_img,
                           padding_before(desired_size[2], resized_img.h),
                           padding_after(desired_size[2], resized_img.h),
                           padding_before(desired_size[1], resized_img.w),
                           padding_after(desired_size[1], resized_img.w),
                           bgr),
        [resized |-> Some(<<resized_img.w, resized_img.h>>),
         padding |-> Some([top    |-> padding_before(desired_size[2], resized_img.h),
                           bottom |-> padding_after(desired_size[2], resized_img.h),
                           left   |-> padding_before(desired_size[1], resized_img.w),
                           right  |-> padding_after(desired_size[1], resized_img.w)])])

\* The exception of resize_image_keeping_aspect_ratio goes through.
letterbox_after_resize(resized, desired_size, bgr) ==
    IF resized.raised # NoError
    THEN Raise(resized.raised, [resized |-> None, padding |-> None])
    ELSE letterbox_resized(Val(resized.returned), desired_size, bgr)

letterbox_image(image, desired_size, color) ==
    letterbox_after_resize(resize_image_keeping_aspect_ratio(image, desired_size),
                           desired_size, _color_to_bgr(color))

(***************************************************************************)
(* Helpers of other modules of the package.                                *)
(***************************************************************************)
\* supervision.utils.iterables.fill: the sequence padded with content up to
\* desired_size; a longer sequence is left as it is.
fill(sequence, desired_size, content) ==
    sequence \o [i \in 1..(desired_size - Len(sequence)) |-> content]

\* supervision.utils.iterables.create_batches: consecutive chunks of
\* batch_size elements (at least 1), the last one possibly shorter.
RECURSIVE create_batches(_, _)
create_batches(sequence, batch_size) ==
    LET size == IF batch_size < 1 THEN 1 ELSE batch_size
    IN  IF Len(sequence) = 0 THEN <<>>
        ELSE IF Len(sequence) <= size THEN <<sequence>>
        ELSE <<SubSeq(sequence, 1, size)>>
             \o create_batches(SubSeq(sequence, size + 1, Len(sequence)), batch_size)

\* supervision.utils.conversion.images_to_cv2: every image as a numpy array
\* of the same size.  An input image is [fmt, w, h]; its content is known
\* by its index in the list.
images_to_cv2(images) ==
    [i \in 1..Len(images) |-> Picture(images[i].w, images[i].h, i)]

\* supervision.utils.conversion.cv2_to_pillow.
cv2_to_pillow(image) == [type |-> "pillow", image |-> image]

\* The index of the input image a tile shows.
SceneIndex(scene) == (CHOOSE p \in scene.parts : p.what.kind = "image").what.index

\* supervision.draw.utils.draw_text: the scene with the text drawn at
\* text_anchor.  Color, scale, thickness, padding and font only style the
\* rendering and are not modelled.
draw_text(scene, text, text_anchor) ==
    Array(scene.w, scene.h,
          scene.parts \cup
              {Part(0, 0, scene.w, scene.h,
                    TitleContent(SceneIndex(scene), text, text_anchor))})

\* supervision.geometry.core.Point.
Point(x, y) == [x |-> x, y |-> y]

(***************************************************************************)
(* numpy.                                                                  *)
(***************************************************************************)
RECURSIVE SumSeq(_)
SumSeq(values) ==
    IF Len(values) = 0 THEN 0 ELSE Head(values) + SumSeq(Tail(values))

np_min(values) == CHOOSE v \in {values[i] : i \in 1..Len(values)} :
                      \A i \in 1..Len(values) : v <= values[i]

np_max(values) == CHOOSE v \in {values[i] : i \in 1..Len(values)} :
                      \A i \in 1..Len(values) : v >= values[i]

\* Lengths along the axis of concatenation and across it.
Along(a, axis) == IF axis = 1 THEN a.w ELSE a.h

Across(a, axis) == IF axis = 1 THEN a.h ELSE a.w

\* The parts of arrays[1..k] laid one after the other along the axis.
RECURSIVE ConcatParts(_, _, _)
ConcatParts(arrays, k, axis) ==
    IF k = 0 THEN {}
    ELSE ConcatParts(arrays, k - 1, axis)
         \cup (IF axis = 1
               THEN Shifted(arrays[k].parts,
                            SumSeq([i \in 1..(k - 1) |-> arrays[i].w]), 0)
               ELSE Shifted(arrays[k].parts, 0,
                            SumSeq([i \in 1..(k - 1) |-> arrays[i].h])))

\* np.concatenate(arrays, axis): axis 1 joins left to right, axis 0 top to
\* bottom.  It needs at least one array, and equal sizes across the axis.
np_concatenate(arrays, axis) ==
    IF Len(arrays) = 0 THEN Raise("ValueError: need at least one array to concatenate", None)
    ELSE IF \E i \in 1..Len(arrays) : Across(arrays[i], axis) # Across(arrays[1], axis)
    THEN Raise("ValueError: all the input array dimensions must match", None)
    ELSE IF axis = 1
    THEN Return(Array(SumSeq([i \in 1..Len(arrays) |-> arrays[i].w]), arrays[1].h,
                      ConcatParts(arrays, Len(arrays), axis)), None)
    ELSE Return(Array(arrays[1].w, SumSeq([i \in 1..Len(arrays) |-> arrays[i].h]),
                      ConcatParts(arrays, Len(arrays), axis)), None)

(***************************************************************************)
(* create_tiles and its helpers.                                           *)
(***************************************************************************)
MAX_COLUMNS_FOR_SINGLE_ROW_GRID == 3

\* The ValueErrors the module raises, by their messages.
EmptyInputError == "ValueError: Could not create image tiles from empty list of images."

InvalidScalingModeError == "ValueError: Could not aggregate images shape - provided unknown mode"

GridCapacityError == "ValueError: Could not place images in grid"

number_of_np_arrays(images) ==
    Cardinality({i \in 1..Len(images) : images[i].fmt = "cv2"})

_negotiate_tiles_format(images) ==
    IF number_of_np_arrays(images) >= (Len(images) \div 2) THEN "cv2" ELSE "pillow"

\* round(aggregator(values)) for the aggregators np.min, np.max, np.average.
RoundedAggregate(aggregator, values) ==
    CASE aggregator = "min" -> np_min(values)
      [] aggregator = "max" -> np_max(values)
      [] aggregator = "avg" -> FloatRound(Mean[SumSeq(values), Len(values)])

\* (width, height).
_calculate_aggregated_images_shape(images, aggregator) ==
    <<RoundedAggregate(aggregator, [i \in 1..Len(images) |-> images[i].w]),
      RoundedAggregate(aggregator, [i \in 1..Len(images) |-> images[i].h])>>

\* The keys of SHAPE_AGGREGATION_FUN.
SHAPE_AGGREGATION_FUN == {"min", "max", "avg"}

\* _aggregate_images_shape with an unknown mode taken as "avg".
_aggregate_images_shape_lenient(images, mode) ==
    IF mode \notin SHAPE_AGGREGATION_FUN
    THEN Return(_calculate_aggregated_images_shape(images, "avg"), None)
    ELSE Return(_calculate_aggregated_images_shape(images, mode), None)

_aggregate_images_shape(images, mode) ==
    IF mode \notin SHAPE_AGGREGATION_FUN
    THEN Raise(InvalidScalingModeError, None)
    ELSE Return(_calculate_aggregated_images_shape(images, mode), None)

\* math.ceil(np.sqrt(n)): np.sqrt is correctly rounded, so it is exact on a
\* perfect square and strictly between two integers otherwise.
CeilSqrt(n) == CHOOSE s \in 1..n : s * s >= n /\ (s - 1) * (s - 1) < n

\* TrimRows with the loop condition > in place of >=.
RECURSIVE TrimRowsStrict(_, _, _)
TrimRowsStrict(proposed_rows, proposed_columns, n) ==
    IF proposed_columns * (proposed_rows - 1) > n
    THEN TrimRowsStrict(proposed_rows - 1, proposed_columns, n)
    ELSE proposed_rows

RECURSIVE TrimRows(_, _, _)
TrimRows(proposed_rows, proposed_columns, n) ==
    IF proposed_columns * (proposed_rows - 1) >= n
    THEN TrimRows(proposed_rows - 1, proposed_columns, n)
    ELSE proposed_rows

\* _negotiate_grid_size with the single row kept for fewer than
\* MAX_COLUMNS_FOR_SINGLE_ROW_GRID images only.
_negotiate_grid_size_below(n) ==
    IF n < MAX_COLUMNS_FOR_SINGLE_ROW_GRID THEN <<1, n>>
    ELSE <<TrimRows(CeilSqrt(n), CeilSqrt(n), n), CeilSqrt(n)>>

\* _negotiate_grid_size reads only the number of images.
_negotiate_grid_size(n) ==
    IF n <= MAX_COLUMNS_FOR_SINGLE_ROW_GRID THEN <<1, n>>
    ELSE <<TrimRows(CeilSqrt(n), CeilSqrt(n), n), CeilSqrt(n)>>

\* math.ceil(n / d) for n >= 1 and d # 0: the float n / d, then its ceiling.
CeilOfTrueDiv(n, d) ==
    IF d > 0 THEN FloatCeil(TrueDiv[n, d])
    ELSE 0 - FloatToInt(TrueDiv[n, 0 - d])

\* grid_size is None or a pair of optional integers.
_establish_grid_size(images, grid_size) ==
    IF grid_size = None \/ \A k \in 1..Len(Val(grid_size)) : Val(grid_size)[k] = None
    THEN Return(_negotiate_grid_size(Len(images)), None)
    ELSE LET g == Val(grid_size)
         IN  IF g[1] = None
             THEN IF Val(g[2]) = 0 THEN Raise("ZeroDivisionError", None)
                  ELSE Return(<<CeilOfTrueDiv(Len(images), Val(g[2])), Val(g[2])>>, None)
             ELSE IF g[2] = None
             THEN IF Val(g[1]) = 0 THEN Raise("ZeroDivisionError", None)
                  ELSE Return(<<Val(g[1]), CeilOfTrueDiv(Len(images), Val(g[1]))>>, None)
             ELSE Return(<<Val(g[1]), Val(g[2])>>, None)

\* The floats 0.1 and 0.9.
Float_0_1 == [hi |-> 107374182, lo |-> 26843546, e |-> 0 - 56]

Float_0_9 == [hi |-> 120795955, lo |-> 13421773, e |-> 0 - 53]

\* zip(a, b, ...) stops at the shortest.
MinLen(a, b) == IF Len(a) <= Len(b) THEN Len(a) ELSE Len(b)

_prepare_default_titles_anchors(images, titles_anchors, default_title_placement) ==
    [i \in 1..MinLen(images, titles_anchors) |->
        IF titles_anchors[i] # None THEN Val(titles_anchors[i])
        ELSE IF default_title_placement = "top"
             THEN Point(TrueDiv[images[i].w, 2], FloatMulInt(images[i].h, Float_0_1))
             ELSE Point(TrueDiv[images[i].w, 2], FloatMulInt(images[i].h, Float_0_9))]

\* The loop of _draw_texts over zip(images, titles, titles_anchors).
draw_zipped(images, texts, anchors) ==
    [i \in 1..MinLen(SubSeq(images, 1, MinLen(images, texts)), anchors) |->
        IF texts[i] = None THEN images[i]
        ELSE draw_text(images[i], Val(texts[i]), anchors[i])]

\* titles is None or Some(list of optional texts).
_draw_texts(images, titles, titles_anchors, default_title_placement) ==
    IF titles = None THEN images
    ELSE draw_zipped(images, Val(titles),
                     _prepare_default_titles_anchors(images, titles_anchors,
                                                     default_title_placement))

_generate_color_image(shape, color) == Solid(shape[1], shape[2], color)

\* itertools.chain.from_iterable(zip(row, paddings)): row[1], paddings[1],
\* row[2], paddings[2], ...
Interleaved(row, paddings) ==
    [k \in 1..(2 * MinLen(row, paddings)) |->
        IF k % 2 = 1 THEN row[(k + 1) \div 2] ELSE paddings[k \div 2]]

\* sequence[:-1].
DropLast(sequence) ==
    IF Len(sequence) = 0 THEN <<>> ELSE SubSeq(sequence, 1, Len(sequence) - 1)

\* [element] * count: empty when count <= 0.
Repeated(element, count) == [k \in 1..count |-> element]

\* _merge_tiles_elements from the merged rows on.
merge_rows(merged_rows, tile_margin, tile_margin_color) ==
    np_concatenate(
        DropLast(Interleaved(merged_rows,
                             Repeated(Solid(merged_rows[1].w, tile_margin,
                                            tile_margin_color),
                                      Len(merged_rows)))),
        0)

\* An exception of np.concatenate on a row goes through, the first row first.
merge_merged(merged, tile_margin, tile_margin_color) ==
    IF \E r \in 1..Len(merged) : merged[r].raised # NoError
    THEN Raise(merged[CHOOSE r \in 1..Len(merged) :
                          /\ merged[r].raised # NoError
                          /\ \A q \in 1..(r - 1) : merged[q].raised = NoError].raised,
               None)
    ELSE merge_rows([r \in 1..Len(merged) |-> Val(merged[r].returned)],
                    tile_margin, tile_margin_color)

\* _merge_tiles_elements with the margin after the last tile of a row kept.
_merge_tiles_elements_trailing(tiles_elements, grid_size, single_tile_size, tile_margin, tile_margin_color) ==
    merge_merged(
        [r \in 1..Len(tiles_elements) |->
            np_concatenate(
                Interleaved(tiles_elements[r],
                            Repeated(Solid(tile_margin, single_tile_size[2],
                                           tile_margin_color),
                                     grid_size[2])),
                1)],
        tile_margin, tile_margin_color)

_merge_tiles_elements(tiles_elements, grid_size, single_tile_size, tile_margin, tile_margin_color) ==
    merge_merged(
        [r \in 1..Len(tiles_elements) |->
            np_concatenate(
                DropLast(Interleaved(tiles_elements[r],
                                     Repeated(Solid(tile_margin, single_tile_size[2],
                                                    tile_margin_color),
                                              grid_size[2]))),
                1)],
        tile_margin, tile_margin_color)

\* PadLastRow with the filler tiles put before the images of the last row.
PadLastRowFront(tiles_elements, columns, filler) ==
    LET last == tiles_elements[Len(tiles_elements)]
    IN  [tiles_elements EXCEPT ![Len(tiles_elements)] =
            Repeated(filler, columns - Len(last)) \o last]

\* while len(tiles_elements[-1]) < columns: append a filler tile.
PadLastRow(tiles_elements, columns, filler) ==
    LET last == tiles_elements[Len(tiles_elements)]
    IN  [tiles_elements EXCEPT ![Len(tiles_elements)] =
            last \o Repeated(filler, columns - Len(last))]

\* while len(tiles_elements) < rows: append a row of columns filler tiles.
PadRows(tiles_elements, rows, columns, filler) ==
    tiles_elements \o Repeated(Repeated(filler, columns), rows - Len(tiles_elements))

_generate_tiles(images, grid_size, single_tile_size, tile_padding_color, tile_margin, tile_margin_color, titles, titles_anchors, default_title_placement) ==
    _merge_tiles_elements(
        PadRows(PadLastRow(create_batches(
                               _draw_texts(images, titles, titles_anchors,
                                           default_title_placement),
                               grid_size[2]),
                           grid_size[2],
                           _generate_color_image(single_tile_size, tile_padding_color)),
                grid_size[1], grid_size[2],
                _generate_color_image(single_tile_size, tile_padding_color)),
        grid_size, single_tile_size, tile_margin, tile_margin_color)

\* The local variables of create_tiles when it returns or raises; one not
\* yet assigned is None, one assigned the value v is Some(v).
CreateTilesLocals(return_type, single_tile_size, grid_size, titles, titles_anchors) ==
    [return_type |-> return_type, single_tile_size |-> single_tile_size,
     grid_size |-> grid_size, titles |-> titles, titles_anchors |-> titles_anchors]

\* titles_anchors is <<"none">>, <<"point", p>> or <<"list", anchors>>:
\* [titles_anchors] if not issubclass(type(titles_anchors), list).
AnchorsAsList(titles_anchors) ==
    CASE titles_anchors[1] = "none"  -> <<None>>
      [] titles_anchors[1] = "point" -> <<Some(titles_anchors[2])>>
      [] titles_anchors[1] = "list"  -> titles_anchors[2]

\* create_tiles, its last lines: the mosaic in the return type.
create_tiles_return(return_type, tiles, locals) ==
    IF tiles.raised # NoError THEN Raise(tiles.raised, locals)
    ELSE IF return_type = "pillow"
    THEN Return(cv2_to_pillow(Val(tiles.returned)), locals)
    ELSE Return([type |-> "cv2", image |-> Val(tiles.returned)], locals)

\* create_tiles from the titles on: titles and titles_anchors are filled up
\* to the number of images and the tiles are generated.
create_tiles_titles(a, return_type, single_tile_size, resized_images, grid_size, titles, titles_anchors) ==
    create_tiles_return(
        return_type,
        _generate_tiles(resized_images, grid_size, single_tile_size,
                        _color_to_bgr(a.tile_padding_color), a.tile_margin,
                        _color_to_bgr(a.tile_margin_color), titles, titles_anchors,
                        a.default_title_placement),
        CreateTilesLocals(Some(return_type), Some(single_tile_size), Some(grid_size),
                          Some(titles), Some(titles_anchors)))

\* create_tiles_grid with a grid that is exactly full refused too.
create_tiles_grid_full(a, return_type, single_tile_size, resized_images, established) ==
    IF established.raised # NoError
    THEN Raise(established.raised,
               CreateTilesLocals(Some(return_type), Some(single_tile_size),
                                 None, None, None))
    ELSE IF Len(resized_images) >= Val(established.returned)[1] * Val(established.returned)[2]
    THEN Raise(GridCapacityError,
               CreateTilesLocals(Some(return_type), Some(single_tile_size),
                                 established.returned, None, None))
    ELSE create_tiles_titles(
             a, return_type, single_tile_size, resized_images,
             Val(established.returned),
             IF a.titles # None
             THEN Some(fill(Val(a.titles), Len(resized_images), None))
             ELSE None,
             fill(AnchorsAsList(a.titles_anchors), Len(resized_images), None))

\* create_tiles_grid with the titles padded with empty texts in place of None.
create_tiles_grid_blank(a, return_type, single_tile_size, resized_images, established) ==
    IF established.raised # NoError
    THEN Raise(established.raised,
               CreateTilesLocals(Some(return_type), Some(single_tile_size),
                                 None, None, None))
    ELSE IF Len(resized_images) > Val(established.returned)[1] * Val(established.returned)[2]
    THEN Raise(GridCapacityError,
               CreateTilesLocals(Some(return_type), Some(single_tile_size),
                                 established.returned, None, None))
    ELSE create_tiles_titles(
             a, return_type, single_tile_size, resized_images,
             Val(established.returned),
             IF a.titles # None
             THEN Some(fill(Val(a.titles), Len(resized_images), Some("")))
             ELSE None,
             fill(AnchorsAsList(a.titles_anchors), Len(resized_images), None))

\* create_tiles from the check of the grid on.
create_tiles_grid(a, return_type, single_tile_size, resized_images, established) ==
    IF established.raised # NoError
    THEN Raise(established.raised,
               CreateTilesLocals(Some(return_type), Some(single_tile_size),
                                 None, None, None))
    ELSE IF Len(resized_images) > Val(established.returned)[1] * Val(established.returned)[2]
    THEN Raise(GridCapacityError,
               CreateTilesLocals(Some(return_type), Some(single_tile_size),
                                 established.returned, None, None))
    ELSE create_tiles_titles(
             a, return_type, single_tile_size, resized_images,
             Val(established.returned),
             IF a.titles # None
             THEN Some(fill(Val(a.titles), Len(resized_images), None))
             ELSE None,
             fill(AnchorsAsList(a.titles_anchors), Len(resized_images), None))

\* create_tiles from the letterboxed images on: the first image that
\* letterbox_image fails on ends the call.
create_tiles_resized(a, return_type, images, single_tile_size, boxed) ==
    IF \E i \in 1..Len(boxed) : boxed[i].raised # NoError
    THEN Raise(boxed[CHOOSE i \in 1..Len(boxed) :
                         /\ boxed[i].raised # NoError
                         /\ \A j \in 1..(i - 1) : boxed[j].raised = NoError].raised,
               CreateTilesLocals(Some(return_type), Some(single_tile_size),
                                 None, None, None))
    ELSE create_tiles_grid(a, return_type, single_tile_size,
                           [i \in 1..Len(boxed) |-> Val(boxed[i].returned)],
                           _establish_grid_size(images, a.grid_size))

\* create_tiles from the size of a tile on.
create_tiles_sized(a, return_type, images, aggregated) ==
    IF aggregated.raised # NoError
    THEN Raise(aggregated.raised,
               CreateTilesLocals(Some(return_type), None, None, None, None))
    ELSE create_tiles_resized(
             a, return_type, images, Val(aggregated.returned),
             [i \in 1..Len(images) |->
                 letterbox_image(images[i], Val(aggregated.returned),
                                 [type |-> "tuple",
                                  c |-> _color_to_bgr(a.tile_padding_color)])])

\* create_tiles with the scaling mode checked before the list of images.
create_tiles_mode_first(a) ==
    IF a.single_tile_size = None /\ a.tile_scaling \notin SHAPE_AGGREGATION_FUN
    THEN Raise(InvalidScalingModeError,
               CreateTilesLocals(None, None, None, None, None))
    ELSE IF Len(a.images) = 0
    THEN Raise(EmptyInputError, CreateTilesLocals(None, None, None, None, None))
    ELSE create_tiles_sized(
             a,
             IF a.return_type = "auto" THEN _negotiate_tiles_format(a.images)
             ELSE a.return_type,
             images_to_cv2(a.images),
             IF a.single_tile_size = None
             THEN _aggregate_images_shape(images_to_cv2(a.images), a.tile_scaling)
             ELSE Return(Val(a.single_tile_size), None))

\* create_tiles(images, grid_size, single_tile_size, tile_scaling,
\* tile_padding_color, tile_margin, tile_margin_color, return_type, titles,
\* titles_anchors, ..., default_title_placement), a being the arguments.
create_tiles(a) ==
    IF Len(a.images) = 0
    THEN Raise(EmptyInputError,
               CreateTilesLocals(None, None, None, None, None))
    ELSE create_tiles_sized(
             a,
             IF a.return_type = "auto" THEN _negotiate_tiles_format(a.images)
             ELSE a.return_type,
             images_to_cv2(a.images),
             IF a.single_tile_size = None
             THEN _aggregate_images_shape(images_to_cv2(a.images), a.tile_scaling)
             ELSE Return(Val(a.single_tile_size), None))

(***************************************************************************)
(* The state: the function called, its arguments and its outcome.          *)
(***************************************************************************)
VARIABLES fn, args, raised, returned, locals

vars == <<fn, args, raised, returned, locals>>

\* No call is in progress.
Idle == fn = "none"

\* A call runs to its return or raise.
Outcome(name, arguments, res) ==
    /\ fn' = name
    /\ args' = arguments
    /\ raised' = res.raised
    /\ returned' = res.returned
    /\ locals' = res.locals

Init ==
    /\ fn = "none"
    /\ args = None
    /\ raised = NoError
    /\ returned = None
    /\ locals = None

\* A call of resize_image_keeping_aspect_ratio(image, desired_size).
ResizeImageKeepingAspectRatio ==
    /\ Idle
    /\ \E w \in Sides, h \in Sides, W \in Sides, H \in Sides :
           Outcome("resize_image_keeping_aspect_ratio",
                   [image |-> Picture(w, h, 1), desired_size |-> <<W, H>>],
                   resize_image_keeping_aspect_ratio(Picture(w, h, 1), <<W, H>>))

\* A call of letterbox_image(image, desired_size), color left at its
\* default (0, 0, 0).
LetterboxImage ==
    /\ Idle
    /\ \E w \in Sides, h \in Sides, W \in Sides, H \in Sides :
           Outcome("letterbox_image",
                   [image |-> Picture(w, h, 1), desired_size |-> <<W, H>>,
                    color |-> BgrTuple(0, 0, 0)],
                   letterbox_image(Picture(w, h, 1), <<W, H>>, BgrTuple(0, 0, 0)))

(***************************************************************************)
(* The arguments the calls of create_tiles are made with.                  *)
(***************************************************************************)
\* The sizes (width, height) of the input images.
ImageSizes == {<<2, 2>>, <<3, 1>>}

\* np.ndarray and PIL.Image inputs.
Formats == {"cv2", "pillow"}

InputImages(formats, sizes) ==
    {[fmt |-> f, w |-> size[1], h |-> size[2]] : f \in formats, size \in sizes}

\* The lists of at most longest elements of a set.
ListsOf(elements, longest) == UNION {[1..n -> elements] : n \in 0..longest}

Optional(values) == {None} \cup {Some(v) : v \in values}

\* grid_size: None, or a pair whose elements are None or an integer, zero
\* and negative integers included.
GridSizes ==
    Optional(Optional((0 - 1)..MaxGridSide) \X Optional((0 - 1)..MaxGridSide))

\* single_tile_size: None or (width, height).
TileSizes == Optional({<<1, 1>>, <<3, 2>>})

\* tile_scaling: the three modes and one that is unknown.
ScalingModes == {"min", "max", "avg", "median"}

\* The title texts and anchors used.
Titles == {"a"}

Anchors == {Point(FloatFromInt(1), FloatFromInt(1))}

\* The default values of the parameters of create_tiles.
DefaultPaddingColor == Color(217, 217, 217)

DefaultMarginColor == Color(191, 190, 189)

DefaultTileMargin == 10

CreateTilesArgs(images) ==
    [images |-> images, grid_size |-> None, single_tile_size |-> None,
     tile_scaling |-> "avg", tile_padding_color |-> DefaultPaddingColor,
     tile_margin |-> DefaultTileMargin, tile_margin_color |-> DefaultMarginColor,
     return_type |-> "auto", titles |-> None, titles_anchors |-> <<"none">>,
     default_title_placement |-> "top"]

CallCreateTiles(a) == Outcome("create_tiles", a, create_tiles(a))

\* create_tiles(images, return_type=...): cv2 and pillow images of several
\* sizes, everything else left at its default.
CreateTiles ==
    /\ Idle
    /\ \E images \in ListsOf(InputImages(Formats, ImageSizes), MaxImages),
          return_type \in {"auto", "cv2", "pillow"} :
           CallCreateTiles([CreateTilesArgs(images) EXCEPT !.return_type = return_type])

\* create_tiles(images, grid_size=..., single_tile_size=..., tile_scaling=...,
\* tile_margin=...).
CreateTilesGrid ==
    /\ Idle
    /\ \E images \in ListsOf(InputImages({"cv2"}, ImageSizes), MaxImages),
          grid_size \in GridSizes,
          single_tile_size \in TileSizes,
          tile_scaling \in ScalingModes,
          tile_margin \in 0..MaxMargin :
           /\ single_tile_size # None => tile_scaling \in {"avg", "median"}
           /\ CallCreateTiles([CreateTilesArgs(images) EXCEPT
                                   !.grid_size = grid_size,
                                   !.single_tile_size = single_tile_size,
                                   !.tile_scaling = tile_scaling,
                                   !.tile_margin = tile_margin])

\* create_tiles(images, titles=..., titles_anchors=...,
\* default_title_placement=...): titles_anchors is left out, is one Point or
\* is a list.
CreateTilesTitled ==
    /\ Idle
    /\ \E n \in 1..MaxTitled, size \in ImageSizes,
          titles \in Optional(ListsOf(Optional(Titles), MaxTitled + 1)),
          default_title_placement \in {"top", "bottom"} :
           LET a == [CreateTilesArgs([i \in 1..n |->
                                         [fmt |-> "cv2", w |-> size[1], h |-> size[2]]])
                         EXCEPT !.titles = titles,
                                !.default_title_placement = default_title_placement]
           IN  \/ CallCreateTiles(a)
               \/ \E p \in Anchors :
                      CallCreateTiles([a EXCEPT !.titles_anchors = <<"point", p>>])
               \/ \E anchors \in ListsOf(Optional(Anchors), MaxTitled + 1) :
                      CallCreateTiles([a EXCEPT !.titles_anchors = <<"list", anchors>>])

\* create_tiles([], ...): no image, with every other argument varied.
CreateTilesEmpty ==
    /\ Idle
    /\ \E grid_size \in GridSizes,
          single_tile_size \in TileSizes,
          tile_scaling \in ScalingModes,
          tile_margin \in 0..MaxMargin,
          return_type \in {"auto", "cv2", "pillow"},
          titles \in Optional(ListsOf(Optional(Titles), 1)) :
           CallCreateTiles([CreateTilesArgs(<<>>) EXCEPT
                                !.grid_size = grid_size,
                                !.single_tile_size = single_tile_size,
                                !.tile_scaling = tile_scaling,
                                !.tile_margin = tile_margin,
                                !.return_type = return_type,
                                !.titles = titles])

\* _negotiate_grid_size(images) for a list of n images.
NegotiateGridSize ==
    /\ Idle
    /\ \E n \in 1..MaxCount :
           Outcome("_negotiate_grid_size", [n |-> n],
                   Return(_negotiate_grid_size(n), None))


\* The caller drops the outcome: the module keeps no state between calls.
Finish ==
    /\ fn # "none"
    /\ fn' = "none"
    /\ args' = None
    /\ raised' = NoError
    /\ returned' = None
    /\ locals' = None

Next ==
    \/ ResizeImageKeepingAspectRatio
    \/ LetterboxImage
    \/ CreateTiles
    \/ CreateTilesGrid
    \/ CreateTilesTitled
    \/ CreateTilesEmpty
    \/ NegotiateGridSize
    \/ Finish

Spec == Init /\ [][Next]_vars

(***************************************************************************)
(* What the claims speak of.                                               *)
(***************************************************************************)
CalledCreateTiles == fn = "create_tiles"

\* The number of images create_tiles was called with.
NumImages == Len(args.images)

\* No grid_size override: grid_size is None or (None, None).
AutoGrid == args.grid_size = None \/ args.grid_size = Some(<<None, None>>)

\* The grid create_tiles resolved, once it has.
GridResolved == locals.grid_size # None

Rows == Val(locals.grid_size)[1]

Columns == Val(locals.grid_size)[2]

\* The size of a tile.
TileWidth == Val(locals.single_tile_size)[1]

TileHeight == Val(locals.single_tile_size)[2]

\* The raster create_tiles returned.
Mosaic == Val(returned).image

\* (rows, columns) is the plan for n > 3 images: columns is the ceiling of
\* the square root of n, and rows is the least number of rows of that many
\* columns that holds n images.
IsSquareRootPlan(rows, columns, n) ==
    /\ columns * columns >= n
    /\ (columns - 1) * (columns - 1) < n
    /\ rows * columns >= n
    /\ columns * (rows - 1) < n
    /\ \A r \in 1..(rows - 1) : r * columns < n

\* The filler tiles of the mosaic: tile-sized rectangles of the padding color.
FillerTiles ==
    {p \in Mosaic.parts :
        /\ p.what.kind = "color"
        /\ p.what.color = Some(_color_to_bgr(args.tile_padding_color))
        /\ p.w = TileWidth /\ p.h = TileHeight}

(***************************************************************************)
(* C1: for every number of images n > 3, automatic grid planning           *)
(* (grid_size None or (None, None)) yields (rows, columns) with columns =  *)
(* ceil(sqrt(n)) and rows minimal such that rows * columns >= n and        *)
(* columns * (rows - 1) < n; 5 images yield (2, 3).                        *)
(***************************************************************************)
C1_AutoGridAboveThree ==
    /\ (fn = "_negotiate_grid_size" /\ args.n > 3) =>
           /\ IsSquareRootPlan(Val(returned)[1], Val(returned)[2], args.n)
           /\ args.n = 5 => Val(returned) = <<2, 3>>
    /\ (CalledCreateTiles /\ AutoGrid /\ NumImages > 3 /\ GridResolved) =>
           /\ IsSquareRootPlan(Rows, Columns, NumImages)
           /\ NumImages = 5 => <<Rows, Columns>> = <<2, 3>>

\* Five images composed with default settings: a (2, 3) grid, one filler tile.
C1_Witness ==
    /\ CalledCreateTiles /\ AutoGrid /\ NumImages = 5
    /\ raised = NoError
    /\ <<Rows, Columns>> = <<2, 3>>
    /\ Cardinality(FillerTiles) = 1

(***************************************************************************)
(* C2: for every number of images n with 1 <= n <= 3, automatic grid       *)
(* planning yields exactly the grid (1, n).                                *)
(***************************************************************************)
C2_AutoGridUpToThree ==
    /\ (fn = "_negotiate_grid_size" /\ args.n <= 3) => Val(returned) = <<1, args.n>>
    /\ (CalledCreateTiles /\ AutoGrid /\ NumImages \in 1..3 /\ GridResolved) =>
           <<Rows, Columns>> = <<1, NumImages>>

C2_Witness ==
    /\ CalledCreateTiles /\ args.grid_size = Some(<<None, None>>) /\ NumImages = 3
    /\ raised = NoError
    /\ <<Rows, Columns>> = <<1, 3>>

(***************************************************************************)
(* C3: with return_type "auto" the output format is the majority vote over *)
(* the formats of the input images: cv2 if the cv2 inputs are at least as  *)
(* many as the pillow inputs, pillow if the pillow inputs are strictly     *)
(* more; only exact ties go to cv2.                                        *)
(***************************************************************************)
NumberOf(format) == Cardinality({i \in 1..NumImages : args.images[i].fmt = format})

C3_MajorityVote ==
    (CalledCreateTiles /\ args.return_type = "auto" /\ NumImages >= 1) =>
        /\ locals.return_type =
               Some(IF NumberOf("cv2") >= NumberOf("pillow") THEN "cv2" ELSE "pillow")
        /\ raised = NoError =>
               Val(returned).type =
                   (IF NumberOf("cv2") >= NumberOf("pillow") THEN "cv2" ELSE "pillow")

(***************************************************************************)
(* C4: when titles are given and titles_anchors is a single Point, every   *)
(* title is drawn at that anchor; a list of anchors is used as it is, and  *)
(* only a missing or None entry falls back to the default anchor of        *)
(* default_title_placement.                                                *)
(***************************************************************************)
\* The default anchor on a tile: (width / 2, height * 0.1) at the top,
\* (width / 2, height * 0.9) at the bottom.
DefaultAnchor ==
    IF args.default_title_placement = "top"
    THEN Point(TrueDiv[TileWidth, 2], FloatMulInt(TileHeight, Float_0_1))
    ELSE Point(TrueDiv[TileWidth, 2], FloatMulInt(TileHeight, Float_0_9))

\* The anchor the title of image i is to be drawn at.
AnchorOf(i) ==
    IF args.titles_anchors[1] = "point" THEN args.titles_anchors[2]
    ELSE IF /\ args.titles_anchors[1] = "list"
            /\ i <= Len(args.titles_anchors[2])
            /\ args.titles_anchors[2][i] # None
    THEN Val(args.titles_anchors[2][i])
    ELSE DefaultAnchor

TitlesDrawn == {p \in Mosaic.parts : p.what.kind = "title"}

C4_AnchorBroadcast ==
    (CalledCreateTiles /\ raised = NoError /\ args.titles # None) =>
        \A p \in TitlesDrawn : p.what.anchor = Some(AnchorOf(p.what.index))

(***************************************************************************)
(* C5: for every non-empty list of images, create_tiles fails with the     *)
(* grid capacity error if and only if the resolved grid (the override, the *)
(* override completed by ceil division, or the negotiated grid) has        *)
(* rows * columns < number of images, and then no raster is returned; 2    *)
(* images with grid_size (1, 1) fail.                                      *)
(***************************************************************************)
\* The grid that grid_size resolves to for the images of the call; a
\* division by a fixed element of 0 resolves to none.
ResolvedGrid == _establish_grid_size(args.images, args.grid_size)

GridTooSmall ==
    /\ ResolvedGrid.raised = NoError
    /\ Val(ResolvedGrid.returned)[1] * Val(ResolvedGrid.returned)[2] < NumImages

TileSizeResolves ==
    args.single_tile_size # None \/ args.tile_scaling \in SHAPE_AGGREGATION_FUN

ResolvedTileSize ==
    IF args.single_tile_size # None THEN Val(args.single_tile_size)
    ELSE _calculate_aggregated_images_shape(args.images, args.tile_scaling)

EveryImageLetterboxed ==
    \A i \in 1..NumImages :
        letterbox_image(Picture(args.images[i].w, args.images[i].h, i),
                        ResolvedTileSize, args.tile_padding_color).raised = NoError

UnknownScaling == args.tile_scaling \notin {"min", "max", "avg"}

C7_EmptyInputFailsFirst ==
    (CalledCreateTiles /\ NumImages = 0) =>
        /\ raised = EmptyInputError
        /\ returned = None
        /\ locals = CreateTilesLocals(None, None, None, None, None)

C7_Witness ==
    /\ CalledCreateTiles /\ NumImages = 0
    /\ UnknownScaling /\ args.single_tile_size = None
    /\ args.grid_size = Some(<<Some(0), Some(0)>>)
    /\ raised = EmptyInputError
    /\ returned = None

(***************************************************************************)
(* C8: for every size (w, h) of the input and every target (W, H), all at  *)
(* least 1, letterbox_image returns a raster of exactly (W, H): the resize *)
(* yields a raster with both sides >= 1, and the four paddings are >= 0    *)
(* and add up with the resized size to the target.                         *)
(***************************************************************************)
C8_LetterboxExactSize ==
    fn = "letterbox_image" =>
        /\ raised = NoError
        /\ returned # None
        /\ <<Val(returned).w, Val(returned).h>> = args.desired_size
        /\ Val(locals.resized)[1] >= 1 /\ Val(locals.resized)[2] >= 1
        /\ Val(locals.padding).top >= 0 /\ Val(locals.padding).bottom >= 0
        /\ Val(locals.padding).left >= 0 /\ Val(locals.padding).right >= 0
        /\ Val(locals.padding).left + Val(locals.resized)[1] + Val(locals.padding).right
               = args.desired_size[1]
        /\ Val(locals.padding).top + Val(locals.resized)[2] + Val(locals.padding).bottom
               = args.desired_size[2]

(***************************************************************************)
(* C9: resize_image_keeping_aspect_ratio produces a size (w', h') within   *)
(* the target box (W, H) in which the larger relative side equals its      *)
(* target (the width when w / h >= W / H, the height otherwise) and the    *)
(* other side is the proportionally scaled value rounded down, less than   *)
(* one pixel from the exact value.                                         *)
(***************************************************************************)
C9_ResizeProportional ==
    (fn = "resize_image_keeping_aspect_ratio" /\ raised = NoError) =>
        /\ Val(returned).w <= args.desired_size[1]
        /\ Val(returned).h <= args.desired_size[2]
        /\ args.image.w * args.desired_size[2] >= args.desired_size[1] * args.image.h =>
               /\ Val(returned).w = args.desired_size[1]
               /\ Val(returned).h = (args.desired_size[1] * args.image.h) \div args.image.w
        /\ args.image.w * args.desired_size[2] < args.desired_size[1] * args.image.h =>
               /\ Val(returned).h = args.desired_size[2]
               /\ Val(returned).w = (args.desired_size[2] * args.image.w) \div args.image.h

(***************************************************************************)
(* C10: every successful composition with the grid (rows, columns), the    *)
(* tile size (tw, th) and the margin m >= 0 returns a raster of exactly    *)
(* columns * tw + (columns - 1) * m by rows * th + (rows - 1) * m, with no *)
(* leading or trailing margin, whatever the number of images (incomplete   *)
(* last rows and whole filler rows included).                              *)
(***************************************************************************)
MarginStrips ==
    {p \in Mosaic.parts :
        /\ p.what.kind = "color"
        /\ p.what.color = Some(_color_to_bgr(args.tile_margin_color))}

C10_MosaicSize ==
    (CalledCreateTiles /\ raised = NoError) =>
        /\ Mosaic.w = Columns * TileWidth + (Columns - 1) * args.tile_margin
        /\ Mosaic.h = Rows * TileHeight + (Rows - 1) * args.tile_margin
        /\ Cardinality(MarginStrips) =
               IF args.tile_margin = 0 THEN 0 ELSE Rows * (Columns - 1) + (Rows - 1)
        /\ \A p \in MarginStrips :
               \/ (p.x > 0 /\ p.x + p.w < Mosaic.w)
               \/ (p.y > 0 /\ p.y + p.h < Mosaic.h)

\* Three images in a grid of 3 rows and 2 columns with a margin: the second
\* row is incomplete and the third is a whole row of filler tiles.
C10_Witness ==
    /\ CalledCreateTiles /\ raised = NoError
    /\ NumImages = 3 /\ <<Rows, Columns>> = <<3, 2>>
    /\ args.tile_margin = 1
    /\ Cardinality(FillerTiles) = 3
    /\ <<Mosaic.w, Mosaic.h>> = <<2 * TileWidth + 1, 3 * TileHeight + 2>>

(***************************************************************************)
(* C11: for every list of n images and every list of k < n titles,         *)
(* create_tiles pads the titles with None up to n, and its outcome is      *)
(* identical to the outcome of the call with that padded list passed       *)
(* explicitly: tiles k..n-1 carry no title and tiles 0..k-1 carry the same *)
(* titles at the same anchors.                                             *)
(***************************************************************************)
TitlesGiven == Val(args.titles)

ShortTitles == args.titles # None /\ Len(TitlesGiven) < NumImages

\* The titles given, followed by None up to the number of images.
PaddedTitles ==
    [i \in 1..NumImages |-> IF i <= Len(TitlesGiven) THEN TitlesGiven[i] ELSE None]

\* The call with the padded titles passed explicitly.
PaddedCall == create_tiles([args EXCEPT !.titles = Some(PaddedTitles)])

C11_ShortTitlesPadded ==
    (CalledCreateTiles /\ ShortTitles) =>
        /\ locals.titles # None => locals.titles = Some(Some(PaddedTitles))
        /\ raised = PaddedCall.raised
        /\ returned = PaddedCall.returned
        /\ raised = NoError =>
               {<<p.what.index, p.what.text>> : p \in TitlesDrawn} =
                   {<<i, Val(TitlesGiven[i])>> :
                        i \in {j \in 1..Len(TitlesGiven) : TitlesGiven[j] # None}}

\* Three images with a single title: two tiles carry no title.
C11_Witness ==
    /\ CalledCreateTiles /\ NumImages = 3
    /\ args.titles = Some(<<Some("a")>>)
    /\ raised = NoError
    /\ Cardinality(TitlesDrawn) = 1
    /\ \A p \in TitlesDrawn : p.what.index = 1

(***************************************************************************)
(* C12: in every successful create_tiles call with n images and the grid   *)
(* (rows, columns) the tiles are laid out row-major in input order: the    *)
(* tile of image i (0-based) occupies the cell (i div columns, i mod       *)
(* columns), and exactly the remaining rows * columns - n cells, all after *)
(* the last image in row-major order, hold filler tiles of the letterbox   *)
(* padding color and of exactly the tile size.                             *)
(***************************************************************************)
\* The left and top edge in the mosaic of the cell with the 0-based
\* row-major number k.
CellLeft(k) == (k % Columns) * (TileWidth + args.tile_margin)

CellTop(k) == (k \div Columns) * (TileHeight + args.tile_margin)

\* The part p lies within the cell number k.
InCell(p, k) ==
    /\ CellLeft(k) <= p.x /\ p.x + p.w <= CellLeft(k) + TileWidth
    /\ CellTop(k) <= p.y /\ p.y + p.h <= CellTop(k) + TileHeight

\* What the mosaic shows of the input images, titles included.
ImagesShown == {p \in Mosaic.parts : p.what.kind \in {"image", "title"}}

C12_RowMajorLayout ==
    (CalledCreateTiles /\ raised = NoError) =>
        /\ \A i \in 1..NumImages :
               Cardinality({p \in Mosaic.parts :
                                p.what.kind = "image" /\ p.what.index = i}) = 1
        /\ \A p \in ImagesShown :
               p.what.index \in 1..NumImages /\ InCell(p, p.what.index - 1)
        /\ Cardinality(FillerTiles) = Rows * Columns - NumImages
        /\ {<<p.x, p.y>> : p \in FillerTiles} =
               {<<CellLeft(k), CellTop(k)>> : k \in NumImages..(Rows * Columns - 1)}

\* Four images in a grid of 3 rows and 2 columns: the fourth image is in
\* the cell (1, 1) and the last row holds two filler tiles.
C12_Witness ==
    /\ CalledCreateTiles /\ raised = NoError
    /\ NumImages = 4 /\ <<Rows, Columns>> = <<3, 2>>
    /\ args.tile_margin > 0
    /\ \E p \in Mosaic.parts :
           /\ p.what.kind = "image" /\ p.what.index = 4
           /\ p.x >= TileWidth + args.tile_margin
           /\ p.y >= TileHeight + args.tile_margin
           /\ p.y < 2 * (TileHeight + args.tile_margin)
    /\ {<<p.x, p.y>> : p \in FillerTiles} =
           {<<0, 2 * (TileHeight + args.tile_margin)>>,
            <<TileWidth + args.tile_margin, 2 * (TileHeight + args.tile_margin)>>}

(***************************************************************************)
(* C13: the grid used for composition in every create_tiles call that      *)
(* returns a raster has rows >= 1, columns >= 1 and rows * columns >= the  *)
(* number of images, for every grid_size the caller can pass (None, a full *)
(* override, an override with only rows or only columns fixed, zero and    *)
(* negative integers included); a grid_size violating this never reaches   *)
(* composition.                                                            *)
(***************************************************************************)
ValidGrid == Rows >= 1 /\ Columns >= 1 /\ Rows * Columns >= NumImages

\* The call got as far as composing the tiles: titles_anchors is the last
\* local assigned before _generate_tiles is called.
ReachedComposition == locals.titles_anchors # None

\* The first half of the claim: a call that returns a raster used a valid grid.
ReturnedWithValidGrid == (CalledCreateTiles /\ raised = NoError) => ValidGrid

C13_ValidGridComposed ==
    /\ ReturnedWithValidGrid
    /\ (CalledCreateTiles /\ ReachedComposition) => ValidGrid

=============================================================================
